---- MODULE Spec2Model ----
\* Voice-gated robotic arm controller: VoiceAuthenticator (voiceAuth.js),
\* SerialCommunicator (serialComm.js) and RoboticArmController (main.js),
\* modelled as one state machine. Every browser task (a click handler up to its
\* first await, the continuation after an await, a timer callback, a recorder
\* event) is one action.
\*
\* index.html is not among the sources: the controls are taken to start disabled
\* and the setup phase to start displayed, which is the state resetVoiceProfile
\* and updateControlsState restore. A handler is an operation whenever its own
\* guards allow it; only the .disabled flag the code sets itself gates a control.
\* Not modelled: this.audioChunks and the status texts (no variable here reads
\* them), slider positions, and the numeric content of an embedding (its length
\* stands for it; each cosine similarity is an input in hundredths).
\* Spec is the whole program; its state space is the product of the two
\* components, and TLC checks VoiceSpec and ArmSpec (defined below),
\* ConcurrentSpec (VoiceSpec with a second recorder slot), ExtractorSpec
\* (extractMFCC applied to decoded captures of several rates and lengths),
\* FramerSpec (frameSignal alone) and PadSpec (the pad-or-truncate of
\* extractDeepEmbedding alone).
EXTENDS Integers, Sequences, FiniteSets, TLC

\* ---------------------------------------------------------------- bounds
\* Recorder objects alive at once (pending getUserMedia requests included).
MaxRecorders == 1
\* Cap on the enrolled embeddings kept by the model (the code has no cap).
MaxProfile == 4
\* Cap on pending unlockSystem / completeVoiceSetup timers.
MaxTimers == 1
\* Recorder objects alive at once where captures overlap (ConcurrentSpec).
MaxConcurrent == 2
\* frameSignal's arguments (FramerSpec): signal length, frame length, step.
MaxSignal == 8
MaxFrame == 4
MaxStep == 3
\* Longest feature vector handed to extractDeepEmbedding (PadSpec).
MaxFeatures == 130

\* ------------------------------------------------------- program constants
\* Similarity scores are in hundredths: 0.75 is 75.
threshold == 75
\* recordVoiceSample: the count at which completeVoiceSetup is called.
TargetCount == 3
\* computeDCT numCoeffs: the length of the feature vector (identity fallback).
NumCoeffs == 13
\* Units of the model's last dense layer: the length of a model embedding.
EmbeddingDim == 64
\* extractDeepEmbedding: the length the feature vector is cut or padded to.
IntermediateWidth == 128

\* Similarity scores a capture can yield against one enrolled embedding.
Scores == {60, 75, 81}
\* The controls a slider handler names, and the slider values tried.
ControlIds == {"base", "claw"}
SliderValues == {0, 90}
Kinds == {"enroll", "verify"}
RecorderIds == 1..MaxRecorders
\* Decoded captures given to extractMFCC: sample rates of audio hardware (the
\* 25 ms frame is 275 samples at 11025 Hz and 551 at 22050 Hz) and lengths in
\* samples, from empty to several frames.
SampleRates == {8000, 11025, 16000, 22050, 44100, 48000}
SignalLengths == {0, 199, 200, 275, 400, 551, 1102, 1200, 1500, 2400, 4410}
AudioBuffers == [sampleRate : SampleRates, length : SignalLengths]
\* Thresholds the decision is compared at (this.threshold is the middle one).
Thresholds == {60, 75, 90}
\* What ends an onstop handler early: decodeAudioData rejecting, new Array(N / 2)
\* for an odd N, features[0].length with no frame.
CaptureErrors == {"EncodingError", "RangeError", "TypeError"}

VARIABLES
    \* VoiceAuthenticator
    voiceEmbeddings,   \* this.voiceEmbeddings: the Profile, a sequence of embeddings
    recordingCount,    \* this.recordingCount
    isLocked,          \* this.isLocked
    modelLoaded,       \* this.modelLoaded
    mediaRecorder,     \* this.mediaRecorder: a recorder id, 0 for null
    recorders,         \* every MediaRecorder object: id -> [kind, state]
    pendingMedia,      \* getUserMedia promises not yet settled: kind -> count
    stopTimers,        \* pending 3000 ms stop timers
    unlockTimers,      \* pending 1000 ms unlockSystem timers
    setupTimers,       \* pending 1500 ms completeVoiceSetup timers
    setupPhase,        \* setupPhase.style.display is not 'none'
    authPhase,         \* authPhase.style.display is not 'none'
    lockOverlay,       \* lockOverlay.style.display is not 'none'
    audioBuffer,       \* the decoded capture extractMFCC is given: [sampleRate, length]
    avgMFCC,           \* what extractMFCC came to for audioBuffer
    framed,            \* a call of frameSignal: its arguments and the frames returned
    inputTensor,       \* a call of extractDeepEmbedding: mfcc as given, mfcc after
                       \* the call, and the features handed to the model
    \* SerialCommunicator
    port,              \* this.port is set
    writer,            \* this.writer is set
    isConnected,       \* this.isConnected
    commandTimers,     \* pending debounce timers: id -> their commands, oldest first
    connectPc,         \* position of the connect() call in flight
    disconnectPc,      \* position of the disconnect() call in flight
    connectBtnDisabled,\* connectBtn.disabled
    \* RoboticArmController
    controlsDisabled,  \* the .disabled flag of the 4 sliders, 2 claw buttons, stop
    \* what the last step emitted (device write, event, log, alert)
    out

voiceVars == <<voiceEmbeddings, recordingCount, isLocked, modelLoaded, mediaRecorder,
               recorders, pendingMedia, stopTimers, unlockTimers, setupTimers,
               setupPhase, authPhase, lockOverlay, audioBuffer, avgMFCC, framed,
               inputTensor>>
extractorVars == <<audioBuffer, avgMFCC, framed, inputTensor>>
serialVars == <<port, writer, isConnected, commandTimers, connectPc, disconnectPc,
                connectBtnDisabled>>
vars == <<voiceVars, serialVars, controlsDisabled, out>>

\* ---------------------------------------------------------------- helpers
NoCmd == <<"", 0>>
STOP == <<"STOP", 0>>

Emit(type, cmd, scores) == [type |-> type, cmd |-> cmd, scores |-> scores]
Quiet == Emit("none", NoCmd, <<>>)

FreeRecorder == [kind |-> "none", state |-> "free"]

\* Recorder slots a new MediaRecorder can take: never used, or finished.
Slots == DOMAIN recorders
FreeIds == {i \in Slots : recorders[i].state = "free"}
InFlight == (Cardinality(Slots) - Cardinality(FreeIds))
              + pendingMedia["enroll"] + pendingMedia["verify"]
NewId == CHOOSE i \in FreeIds : \A j \in FreeIds : i <= j

\* this.mediaRecorder.state === 'recording' (a finished recorder is inactive)
RecorderState(id) == IF id = 0 THEN "inactive" ELSE recorders[id].state

\* Math.max(...similarities), folded left to right from -Infinity
RECURSIVE MaxFrom(_, _, _)
MaxFrom(s, i, acc) ==
    IF i > Len(s) THEN acc
    ELSE MaxFrom(s, i + 1, IF s[i] > acc THEN s[i] ELSE acc)
MathMax(s) == MaxFrom(s, 2, s[1])

\* similarities.reduce((a, b) => a + b) / similarities.length, in hundredths
RECURSIVE SumFrom(_, _, _)
SumFrom(s, i, acc) == IF i > Len(s) THEN acc ELSE SumFrom(s, i + 1, acc + s[i])
avgSimilarity(s) == SumFrom(s, 2, s[1]) \div Len(s)

\* The decision score taken as the average, the other figure the handler computes.
DecisionByAverage(s) == avgSimilarity(s)

maxSimilarity(s) == MathMax(s)

\* The threshold test written with >= in place of >.
AcceptsAtThreshold(s) == maxSimilarity(s) >= threshold

\* The comparison with its operands exchanged.
ThresholdAboveMax(s, t) == t > maxSimilarity(s)

\* maxSimilarity > this.threshold, for a value t of this.threshold
AcceptsAt(s, t) == maxSimilarity(s) > t

\* if (maxSimilarity > this.threshold)
Accepts(s) == AcceptsAt(s, threshold)

\* what the onstop of authenticateVoice comes to for a list of similarities
Verdict(s) ==
    IF Len(s) = 0 THEN "reduceError"
    ELSE IF Accepts(s) THEN "accept" ELSE "reject"

\* ---- extractMFCC, by the lengths of the arrays it builds
\* Math.floor(0.025 * sampleRate) and Math.floor(0.010 * sampleRate)
frameLength(sampleRate) == (25 * sampleRate) \div 1000
frameStep(sampleRate) == (10 * sampleRate) \div 1000

\* signal.slice(begin, end) on a signal of `length` samples: a frame is given by
\* the offset of its first sample and the number of its samples
Min(a, b) == IF a < b THEN a ELSE b
slice(length, begin, end) ==
    [start |-> Min(begin, length),
     samples |-> IF Min(end, length) > Min(begin, length)
                 THEN Min(end, length) - Min(begin, length) ELSE 0]

\* The loop of frameSignal run while a frame starts inside the signal.
RECURSIVE FramesWhileInside(_, _, _, _)
FramesWhileInside(i, length, fLength, fStep) ==
    IF i < length
    THEN <<slice(length, i, i + fLength)>>
            \o FramesWhileInside(i + fStep, length, fLength, fStep)
    ELSE <<>>

\* frameSignal: the frames its loop pushes, from offset i on
RECURSIVE FramesFrom(_, _, _, _)
FramesFrom(i, length, fLength, fStep) ==
    IF i + fLength <= length
    THEN <<slice(length, i, i + fLength)>> \o FramesFrom(i + fStep, length, fLength, fStep)
    ELSE <<>>
frameSignal(length, fLength, fStep) == FramesFrom(0, length, fLength, fStep)

\* computePowerSpectrum for a frame of N samples: new Array(N / 2) throws a
\* RangeError when N / 2 is not an integer, else N / 2 values are filled
computePowerSpectrum(N) ==
    IF N % 2 # 0 THEN [error |-> "RangeError", length |-> 0]
    ELSE [error |-> "none", length |-> N \div 2]

\* computeDCT: numCoeffs values whatever the mel spectrum
computeDCT == NumCoeffs

\* averageFeatures: features[0].length throws a TypeError on an empty list
averageFeatures(numFrames, numFeatures) ==
    IF numFrames = 0 THEN [error |-> "TypeError", length |-> 0]
    ELSE [error |-> "none", length |-> numFeatures]

NoBuffer == [sampleRate |-> 0, length |-> 0]
NotRun == [error |-> "notRun", frames |-> 0, spectrum |-> 0, coeffs |-> 0]

\* extractMFCC: frames, then the power spectrum of each frame (the first frame
\* throws if any does), the mel spectrum and DCT of each, then the average
extractMFCC(buffer) ==
    LET fLength == frameLength(buffer.sampleRate)
        frames == Len(frameSignal(buffer.length, fLength, frameStep(buffer.sampleRate)))
        spectrum == computePowerSpectrum(fLength)
        avg == averageFeatures(frames, computeDCT)
    IN  IF frames > 0 /\ spectrum.error # "none"
        THEN [error |-> spectrum.error, frames |-> frames, spectrum |-> 0, coeffs |-> 0]
        ELSE IF avg.error # "none"
        THEN [error |-> avg.error, frames |-> frames, spectrum |-> 0, coeffs |-> 0]
        ELSE [error |-> "none", frames |-> frames, spectrum |-> spectrum.length,
              coeffs |-> avg.length]

\* No call yet: a call of frameSignal has a step of 1 or more, and a tensor
\* built has features.
NotFramed == [length |-> 0, frameLength |-> 0, frameStep |-> 0, frames |-> <<>>]
NotBuilt == [given |-> <<>>, mfcc |-> <<>>, features |-> <<>>]

\* while (features.length < 128) features.push(0)
RECURSIVE PushZeros(_)
PushZeros(features) ==
    IF Len(features) < IntermediateWidth THEN PushZeros(Append(features, 0))
    ELSE features

\* The padding done on mfcc itself, with no slice.
padInPlace(mfcc) == [features |-> PushZeros(mfcc), mfcc |-> PushZeros(mfcc)]

\* extractDeepEmbedding, lines 246-249: features = mfcc.slice(0, 128), a copy,
\* then zeros pushed; the result carries mfcc as the call leaves it
padOrTruncate(mfcc) ==
    [features |-> PushZeros(SubSeq(mfcc, 1, Min(Len(mfcc), IntermediateWidth))),
     mfcc |-> mfcc]

\* A feature vector of n components, each told from the others and from 0.
FeatureVector(n) == [i \in 1..n |-> i]

\* extractDeepEmbedding: the embedding is modelled by its length
extractDeepEmbedding == IF modelLoaded THEN EmbeddingDim ELSE NumCoeffs

\* updateControlsState, given the two flags it reads
updateControlsState(locked, connected) == ~((~locked) /\ connected)

\* ------------------------------------------------------------------ Init
\* The state the three constructors leave, with the recorder slots `ids` and
\* the capture handed to extractMFCC drawn from `buffers`.
InitWith(ids, buffers) ==
    /\ voiceEmbeddings = <<>>
    /\ recordingCount = 0
    /\ isLocked = TRUE
    /\ modelLoaded \in BOOLEAN
    /\ mediaRecorder = 0
    /\ recorders = [i \in ids |-> FreeRecorder]
    /\ pendingMedia = [k \in Kinds |-> 0]
    /\ stopTimers = 0
    /\ unlockTimers = 0
    /\ setupTimers = 0
    /\ setupPhase = TRUE
    /\ authPhase = FALSE
    /\ lockOverlay = TRUE
    /\ audioBuffer \in buffers
    /\ avgMFCC = NotRun
    /\ framed = NotFramed
    /\ inputTensor = NotBuilt
    /\ port = FALSE
    /\ writer = FALSE
    /\ isConnected = FALSE
    /\ commandTimers = [c \in ControlIds |-> <<>>]
    /\ connectPc = "idle"
    /\ disconnectPc = "idle"
    /\ connectBtnDisabled = FALSE
    /\ controlsDisabled = TRUE
    /\ out = Quiet

Init == InitWith(RecorderIds, {NoBuffer})

\* ------------------------------------------------- VoiceAuthenticator
\* min(n + 1, MaxTimers): pending timers of one kind beyond the cap are merged
OneMore(n) == IF n < MaxTimers THEN n + 1 ELSE n

\* recordVoiceSample up to its first await (getUserMedia)
recordVoiceSample ==
    /\ IF ~modelLoaded
       THEN /\ out' = Emit("alert", NoCmd, <<>>)
            /\ UNCHANGED pendingMedia
       ELSE /\ InFlight < Cardinality(Slots)
            /\ pendingMedia' = [pendingMedia EXCEPT !["enroll"] = @ + 1]
            /\ out' = Quiet
    /\ UNCHANGED <<extractorVars, voiceEmbeddings, recordingCount, isLocked, modelLoaded, mediaRecorder,
                   recorders, stopTimers, unlockTimers, setupTimers, setupPhase,
                   authPhase, lockOverlay, serialVars, controlsDisabled>>

\* authenticateVoice up to its first await (getUserMedia)
authenticateVoice ==
    /\ IF Len(voiceEmbeddings) = 0
       THEN /\ out' = Emit("alert", NoCmd, <<>>)
            /\ UNCHANGED pendingMedia
       ELSE /\ InFlight < Cardinality(Slots)
            /\ pendingMedia' = [pendingMedia EXCEPT !["verify"] = @ + 1]
            /\ out' = Quiet
    /\ UNCHANGED <<extractorVars, voiceEmbeddings, recordingCount, isLocked, modelLoaded, mediaRecorder,
                   recorders, stopTimers, unlockTimers, setupTimers, setupPhase,
                   authPhase, lockOverlay, serialVars, controlsDisabled>>

\* getUserMedia resolved: the recorder is created and started, its stop timer set
startRecording(kind) ==
    /\ pendingMedia[kind] > 0
    /\ pendingMedia' = [pendingMedia EXCEPT ![kind] = @ - 1]
    /\ mediaRecorder' = NewId
    /\ recorders' = [recorders EXCEPT ![NewId] = [kind |-> kind, state |-> "recording"]]
    /\ stopTimers' = stopTimers + 1
    /\ out' = Quiet
    /\ UNCHANGED <<extractorVars, voiceEmbeddings, recordingCount, isLocked, modelLoaded, unlockTimers,
                   setupTimers, setupPhase, authPhase, lockOverlay, serialVars,
                   controlsDisabled>>

\* getUserMedia rejected: the catch block alerts
mediaDenied(kind) ==
    /\ pendingMedia[kind] > 0
    /\ pendingMedia' = [pendingMedia EXCEPT ![kind] = @ - 1]
    /\ out' = Emit("alert", NoCmd, <<>>)
    /\ UNCHANGED <<extractorVars, voiceEmbeddings, recordingCount, isLocked, modelLoaded, mediaRecorder,
                   recorders, stopTimers, unlockTimers, setupTimers, setupPhase,
                   authPhase, lockOverlay, serialVars, controlsDisabled>>

\* the 3000 ms timer: stops whatever this.mediaRecorder is now, if it records;
\* the stopped recorder's onstop then runs to its first await
stopTimer ==
    /\ stopTimers > 0
    /\ stopTimers' = stopTimers - 1
    /\ recorders' = IF RecorderState(mediaRecorder) = "recording"
                    THEN [recorders EXCEPT ![mediaRecorder].state = "processing"]
                    ELSE recorders
    /\ out' = Quiet
    /\ UNCHANGED <<extractorVars, voiceEmbeddings, recordingCount, isLocked, modelLoaded, mediaRecorder,
                   pendingMedia, unlockTimers, setupTimers, setupPhase, authPhase,
                   lockOverlay, serialVars, controlsDisabled>>

\* an onstop handler whose decodeAudioData rejects or whose extractMFCC throws:
\* the handler has no try block, so it ends there with the error unhandled
onstopThrows(id, error) ==
    /\ recorders[id].state = "processing"
    /\ recorders' = [recorders EXCEPT ![id] = FreeRecorder]
    /\ out' = Emit(error, NoCmd, <<>>)
    /\ UNCHANGED <<extractorVars, voiceEmbeddings, recordingCount, isLocked, modelLoaded, mediaRecorder,
                   pendingMedia, stopTimers, unlockTimers, setupTimers, setupPhase,
                   authPhase, lockOverlay, serialVars, controlsDisabled>>

\* The onstop of recordVoiceSample without its recordingCount++.
enrollFinishUncounted(id) ==
    /\ recorders[id].state = "processing"
    /\ recorders[id].kind = "enroll"
    /\ Len(voiceEmbeddings) < MaxProfile
    /\ recorders' = [recorders EXCEPT ![id] = FreeRecorder]
    /\ voiceEmbeddings' = Append(voiceEmbeddings, extractDeepEmbedding)
    /\ setupTimers' = IF recordingCount < TargetCount THEN setupTimers
                      ELSE OneMore(setupTimers)
    /\ out' = Quiet
    /\ UNCHANGED <<extractorVars, recordingCount, isLocked, modelLoaded, mediaRecorder,
                   pendingMedia, stopTimers, unlockTimers, setupPhase, authPhase,
                   lockOverlay, serialVars, controlsDisabled>>

\* recordVoiceSample's onstop after its awaits: push, count, completeVoiceSetup
enrollFinish(id) ==
    /\ recorders[id].state = "processing"
    /\ recorders[id].kind = "enroll"
    /\ Len(voiceEmbeddings) < MaxProfile
    /\ recorders' = [recorders EXCEPT ![id] = FreeRecorder]
    /\ voiceEmbeddings' = Append(voiceEmbeddings, extractDeepEmbedding)
    /\ recordingCount' = recordingCount + 1
    /\ setupTimers' = IF recordingCount' < TargetCount THEN setupTimers
                      ELSE OneMore(setupTimers)
    /\ out' = Quiet
    /\ UNCHANGED <<extractorVars, isLocked, modelLoaded, mediaRecorder, pendingMedia, stopTimers,
                   unlockTimers, setupPhase, authPhase, lockOverlay, serialVars,
                   controlsDisabled>>

\* the 1500 ms timer of completeVoiceSetup
setupTimer ==
    /\ setupTimers > 0
    /\ setupTimers' = setupTimers - 1
    /\ setupPhase' = FALSE
    /\ authPhase' = TRUE
    /\ out' = Quiet
    /\ UNCHANGED <<extractorVars, voiceEmbeddings, recordingCount, isLocked, modelLoaded, mediaRecorder,
                   recorders, pendingMedia, stopTimers, unlockTimers, lockOverlay,
                   serialVars, controlsDisabled>>

\* The onstop of authenticateVoice, also pushing an accepted capture's embedding
\* onto the Profile.
verifyFinishLearning(id, similarities) ==
    /\ recorders[id].state = "processing"
    /\ recorders[id].kind = "verify"
    /\ Len(similarities) = Len(voiceEmbeddings)
    /\ recorders' = [recorders EXCEPT ![id] = FreeRecorder]
    /\ out' = Emit(Verdict(similarities), NoCmd, similarities)
    /\ unlockTimers' = IF out'.type = "accept" THEN OneMore(unlockTimers)
                       ELSE unlockTimers
    /\ voiceEmbeddings' = IF out'.type = "accept" /\ Len(voiceEmbeddings) < MaxProfile
                          THEN Append(voiceEmbeddings, extractDeepEmbedding)
                          ELSE voiceEmbeddings
    /\ UNCHANGED <<extractorVars, recordingCount, isLocked, modelLoaded, mediaRecorder,
                   pendingMedia, stopTimers, setupTimers, setupPhase, authPhase,
                   lockOverlay, serialVars, controlsDisabled>>

\* authenticateVoice's onstop after its awaits. similarities[i] is
\* cosineSimilarity(embedding, voiceEmbeddings[i]) for the captured signal; an
\* empty list makes reduce throw, after the map has run.
verifyFinish(id, similarities) ==
    /\ recorders[id].state = "processing"
    /\ recorders[id].kind = "verify"
    /\ Len(similarities) = Len(voiceEmbeddings)
    /\ recorders' = [recorders EXCEPT ![id] = FreeRecorder]
    /\ out' = Emit(Verdict(similarities), NoCmd, similarities)
    /\ unlockTimers' = IF out'.type = "accept" THEN OneMore(unlockTimers)
                       ELSE unlockTimers
    /\ UNCHANGED <<extractorVars, voiceEmbeddings, recordingCount, isLocked, modelLoaded, mediaRecorder,
                   pendingMedia, stopTimers, setupTimers, setupPhase, authPhase,
                   lockOverlay, serialVars, controlsDisabled>>

\* the 1000 ms timer: unlockSystem, then main.js's voiceUnlocked listener
\* (onVoiceUnlocked -> updateControlsState), run by dispatchEvent synchronously
unlockSystem ==
    /\ unlockTimers > 0
    /\ unlockTimers' = unlockTimers - 1
    /\ isLocked' = FALSE
    /\ lockOverlay' = FALSE
    /\ controlsDisabled' = updateControlsState(isLocked', isConnected)
    /\ out' = Emit("voiceUnlocked", NoCmd, <<>>)
    /\ UNCHANGED <<extractorVars, voiceEmbeddings, recordingCount, modelLoaded, mediaRecorder, recorders,
                   pendingMedia, stopTimers, setupTimers, setupPhase, authPhase,
                   serialVars>>

\* resetVoiceProfile without its recordingCount = 0.
resetKeepingCount ==
    /\ voiceEmbeddings' = <<>>
    /\ authPhase' = FALSE
    /\ setupPhase' = TRUE
    /\ isLocked' = TRUE
    /\ out' = Quiet
    /\ UNCHANGED <<extractorVars, recordingCount, modelLoaded, mediaRecorder, recorders,
                   pendingMedia, stopTimers, unlockTimers, setupTimers, lockOverlay,
                   serialVars, controlsDisabled>>

resetVoiceProfile ==
    /\ voiceEmbeddings' = <<>>
    /\ recordingCount' = 0
    /\ authPhase' = FALSE
    /\ setupPhase' = TRUE
    /\ isLocked' = TRUE
    /\ out' = Quiet
    /\ UNCHANGED <<extractorVars, modelLoaded, mediaRecorder, recorders, pendingMedia, stopTimers,
                   unlockTimers, setupTimers, lockOverlay, serialVars, controlsDisabled>>

ScoreLists(n) == [1..n -> Scores]

\* the call of extractMFCC in an onstop handler, on the decoded capture
onstopExtract ==
    /\ avgMFCC = NotRun
    /\ avgMFCC' = extractMFCC(audioBuffer)
    /\ out' = Quiet
    /\ UNCHANGED <<voiceEmbeddings, recordingCount, isLocked, modelLoaded, mediaRecorder,
                   recorders, pendingMedia, stopTimers, unlockTimers, setupTimers,
                   setupPhase, authPhase, lockOverlay, audioBuffer, framed, inputTensor,
                   serialVars, controlsDisabled>>

\* a call of frameSignal on a signal of `length` samples
frameSignalCall(length, fLength, fStep) ==
    /\ framed = NotFramed
    /\ framed' = [length |-> length, frameLength |-> fLength, frameStep |-> fStep,
                  frames |-> frameSignal(length, fLength, fStep)]
    /\ out' = Quiet
    /\ UNCHANGED <<voiceEmbeddings, recordingCount, isLocked, modelLoaded, mediaRecorder,
                   recorders, pendingMedia, stopTimers, unlockTimers, setupTimers,
                   setupPhase, authPhase, lockOverlay, audioBuffer, avgMFCC, inputTensor,
                   serialVars, controlsDisabled>>

\* a call of extractDeepEmbedding with a model loaded, up to the tensor it builds
embeddingInput(mfcc) ==
    /\ modelLoaded
    /\ inputTensor = NotBuilt
    /\ inputTensor' = [given |-> mfcc, mfcc |-> padOrTruncate(mfcc).mfcc,
                       features |-> padOrTruncate(mfcc).features]
    /\ out' = Quiet
    /\ UNCHANGED <<voiceEmbeddings, recordingCount, isLocked, modelLoaded, mediaRecorder,
                   recorders, pendingMedia, stopTimers, unlockTimers, setupTimers,
                   setupPhase, authPhase, lockOverlay, audioBuffer, avgMFCC, framed,
                   serialVars, controlsDisabled>>

\* ------------------------------------------------- SerialCommunicator
\* updateConnectionUI(connected): the value it gives connectBtn.disabled
updateConnectionUI(connected) == connected

\* sendCommand testing the connection flag only, not the writer.
sendCommandFlagOnly(command, writeOk) ==
    IF ~isConnected THEN Emit("warn", NoCmd, <<>>)
    ELSE IF writeOk THEN Emit("write", command, <<>>)
    ELSE Emit("sendError", NoCmd, <<>>)

\* sendCommand: what it emits. writeOk is false when writer.write rejects.
sendCommand(command, writeOk) ==
    IF ~writer \/ ~isConnected THEN Emit("warn", NoCmd, <<>>)
    ELSE IF writeOk THEN Emit("write", command, <<>>)
    ELSE Emit("sendError", NoCmd, <<>>)

\* connect() up to await requestPort(); one connect() is in flight at a time
connect ==
    /\ ~connectBtnDisabled
    /\ connectPc = "idle"
    /\ connectPc' = "requestPort"
    /\ out' = Quiet
    /\ UNCHANGED <<voiceVars, port, writer, isConnected, commandTimers, disconnectPc,
                   connectBtnDisabled, controlsDisabled>>

\* requestPort settled: this.port is assigned, or the catch block runs
connectRequested(ok) ==
    /\ connectPc = "requestPort"
    /\ IF ok
       THEN /\ port' = TRUE
            /\ connectPc' = "open"
            /\ out' = Quiet
            /\ UNCHANGED connectBtnDisabled
       ELSE /\ connectPc' = "idle"
            /\ connectBtnDisabled' = updateConnectionUI(FALSE)
            /\ out' = Emit("alert", NoCmd, <<>>)
            /\ UNCHANGED port
    /\ UNCHANGED <<voiceVars, writer, isConnected, commandTimers, disconnectPc,
                   controlsDisabled>>

\* port.open settled and getWriter called: connected and arduinoConnected
\* dispatched (onArduinoConnected -> updateControlsState), or the catch block
connectOpened(ok) ==
    /\ connectPc = "open"
    /\ connectPc' = "idle"
    /\ IF ok
       THEN /\ writer' = TRUE
            /\ isConnected' = TRUE
            /\ connectBtnDisabled' = updateConnectionUI(TRUE)
            /\ controlsDisabled' = updateControlsState(isLocked, isConnected')
            /\ out' = Emit("arduinoConnected", NoCmd, <<>>)
       ELSE /\ connectBtnDisabled' = updateConnectionUI(FALSE)
            /\ out' = Emit("alert", NoCmd, <<>>)
            /\ UNCHANGED <<writer, isConnected, controlsDisabled>>
    /\ UNCHANGED <<voiceVars, port, commandTimers, disconnectPc>>

\* disconnect() up to await port.close(), or to its end when there is no port
disconnect ==
    /\ disconnectPc = "idle"
    /\ writer' = FALSE
    /\ IF port
       THEN /\ disconnectPc' = "close"
            /\ UNCHANGED <<isConnected, connectBtnDisabled>>
       ELSE /\ isConnected' = FALSE
            /\ connectBtnDisabled' = updateConnectionUI(FALSE)
            /\ UNCHANGED disconnectPc
    /\ out' = Quiet
    /\ UNCHANGED <<voiceVars, port, commandTimers, connectPc, controlsDisabled>>

\* port.close settled: the rest of disconnect(), or its catch block
disconnectClosed(ok) ==
    /\ disconnectPc = "close"
    /\ disconnectPc' = "idle"
    /\ IF ok
       THEN /\ port' = FALSE
            /\ isConnected' = FALSE
            /\ connectBtnDisabled' = updateConnectionUI(FALSE)
            /\ out' = Quiet
       ELSE /\ out' = Emit("disconnectError", NoCmd, <<>>)
            /\ UNCHANGED <<port, isConnected, connectBtnDisabled>>
    /\ UNCHANGED <<voiceVars, writer, commandTimers, connectPc, controlsDisabled>>

\* clearTimeout(this.commandTimers[id]): the handle kept is that of the timer set
\* last for the control, the last of those pending if any is
clearTimeout(timers) ==
    IF timers = <<>> THEN timers ELSE SubSeq(timers, 1, Len(timers) - 1)

\* sendDebounced without the clearTimeout.
sendDebouncedKeepingTimer(id, command) ==
    commandTimers' = [commandTimers EXCEPT ![id] = Append(@, command)]

\* sendDebounced(id, command): clears the control's pending timer, sets a new one
sendDebounced(id, command) ==
    commandTimers' = [commandTimers EXCEPT ![id] = Append(clearTimeout(@), command)]

\* a debounceDelay timer of one control (the oldest pending fires first, the
\* delays being equal): sendCommand(command)
debounceTimer(id, writeOk) ==
    /\ commandTimers[id] # <<>>
    /\ commandTimers' = [commandTimers EXCEPT ![id] = Tail(@)]
    /\ out' = sendCommand(Head(commandTimers[id]), writeOk)
    /\ UNCHANGED <<voiceVars, port, writer, isConnected, connectPc, disconnectPc,
                   connectBtnDisabled, controlsDisabled>>

\* ------------------------------------------------- RoboticArmController
Letter(id) ==
    CASE id = "base" -> "B" [] id = "mid" -> "M" [] id = "near" -> "N" [] id = "claw" -> "C"

\* a slider's input listener; a disabled slider fires no input event
sliderInput(id, value) ==
    /\ ~controlsDisabled
    /\ sendDebounced(id, <<Letter(id), value>>)
    /\ out' = Quiet
    /\ UNCHANGED <<voiceVars, port, writer, isConnected, connectPc, disconnectPc,
                   connectBtnDisabled, controlsDisabled>>

\* the clawOpen (arg 0) and clawClose (arg 1) click listeners: sendImmediate
clawButton(arg, writeOk) ==
    /\ ~controlsDisabled
    /\ out' = sendCommand(<<"C", arg>>, writeOk)
    /\ UNCHANGED <<voiceVars, serialVars, controlsDisabled>>

\* handleEmergencyStop without the test of confirm's answer.
emergencyStopUnconfirmed(confirmed, writeOk) ==
    /\ ~controlsDisabled
    /\ out' = sendCommand(STOP, writeOk)
    /\ controlsDisabled' = IF out'.type = "write" THEN TRUE ELSE controlsDisabled
    /\ UNCHANGED <<voiceVars, serialVars>>

\* handleEmergencyStop: confirm, emergencyStop, disableAllControls on success
handleEmergencyStop(confirmed, writeOk) ==
    /\ ~controlsDisabled
    /\ IF confirmed
       THEN /\ out' = sendCommand(STOP, writeOk)
            /\ controlsDisabled' = IF out'.type = "write" THEN TRUE ELSE controlsDisabled
       ELSE /\ out' = Quiet
            /\ UNCHANGED controlsDisabled
    /\ UNCHANGED <<voiceVars, serialVars>>

\* ------------------------------------------------------------------ Next
Next ==
    \/ recordVoiceSample
    \/ authenticateVoice
    \/ \E k \in Kinds : startRecording(k)
    \/ \E k \in Kinds : mediaDenied(k)
    \/ stopTimer
    \/ \E id \in Slots, error \in CaptureErrors : onstopThrows(id, error)
    \/ \E id \in Slots : enrollFinish(id)
    \/ setupTimer
    \/ \E id \in Slots :
          \E similarities \in ScoreLists(Len(voiceEmbeddings)) :
             verifyFinish(id, similarities)
    \/ unlockSystem
    \/ resetVoiceProfile
    \/ connect
    \/ \E ok \in BOOLEAN : connectRequested(ok)
    \/ \E ok \in BOOLEAN : connectOpened(ok)
    \/ disconnect
    \/ \E ok \in BOOLEAN : disconnectClosed(ok)
    \/ \E id \in ControlIds, value \in SliderValues : sliderInput(id, value)
    \/ \E id \in ControlIds, writeOk \in BOOLEAN : debounceTimer(id, writeOk)
    \/ \E arg \in {0, 1}, writeOk \in BOOLEAN : clawButton(arg, writeOk)
    \/ \E confirmed, writeOk \in BOOLEAN : handleEmergencyStop(confirmed, writeOk)

Spec == Init /\ [][Next]_vars

\* ------------------------------------------------ component specifications
\* The two classes share isLocked and the voiceUnlocked event only: no action of
\* VoiceAuthenticator reads a variable of SerialCommunicator or of the controls,
\* and no action of the other two classes changes a variable of
\* VoiceAuthenticator. VoiceSpec runs the authenticator with the serial side as
\* constructed; ArmSpec runs the serial side and the controls with the two
\* operations that change isLocked.
VoiceNext ==
    \/ recordVoiceSample
    \/ authenticateVoice
    \/ \E k \in Kinds : startRecording(k)
    \/ \E k \in Kinds : mediaDenied(k)
    \/ stopTimer
    \/ \E id \in Slots, error \in CaptureErrors : onstopThrows(id, error)
    \/ \E id \in Slots : enrollFinish(id)
    \/ setupTimer
    \/ \E id \in Slots :
          \E similarities \in ScoreLists(Len(voiceEmbeddings)) :
             verifyFinish(id, similarities)
    \/ unlockSystem
    \/ resetVoiceProfile

VoiceSpec == Init /\ [][VoiceNext]_vars

\* VoiceSpec with room for a second recorder: a capture can start while another
\* is recording or being processed.
ConcurrentSpec == InitWith(1..MaxConcurrent, {NoBuffer}) /\ [][VoiceNext]_vars

\* extractMFCC alone, applied to each decoded capture of AudioBuffers.
ExtractorSpec == InitWith(RecorderIds, AudioBuffers) /\ [][onstopExtract]_vars

\* frameSignal alone, on every signal length, frame length and step in the bounds
\* (the step is at least 1: it is floor(0.010 * sampleRate)).
FramerNext ==
    \E length \in 0..MaxSignal, fLength \in 0..MaxFrame, fStep \in 1..MaxStep :
        frameSignalCall(length, fLength, fStep)
FramerSpec == Init /\ [][FramerNext]_vars

\* The pad-or-truncate of extractDeepEmbedding alone, on feature vectors of every
\* length up to MaxFeatures.
PadNext == \E n \in 0..MaxFeatures : embeddingInput(FeatureVector(n))
PadSpec == Init /\ [][PadNext]_vars

\* The state VoiceSpec reaches by three enrollments, the completeVoiceSetup timer
\* and an accepted verification whose unlockSystem timer is still pending.
AcceptedPending ==
    /\ voiceEmbeddings = <<EmbeddingDim, EmbeddingDim, EmbeddingDim>>
    /\ recordingCount = TargetCount
    /\ isLocked = TRUE
    /\ modelLoaded = TRUE
    /\ mediaRecorder = 1
    /\ recorders = [i \in RecorderIds |-> FreeRecorder]
    /\ pendingMedia = [k \in Kinds |-> 0]
    /\ stopTimers = 0
    /\ unlockTimers = 1
    /\ setupTimers = 0
    /\ setupPhase = FALSE
    /\ authPhase = TRUE
    /\ lockOverlay = TRUE
    /\ audioBuffer = NoBuffer
    /\ avgMFCC = NotRun
    /\ framed = NotFramed
    /\ inputTensor = NotBuilt

ArmInit ==
    \/ Init
    \/ /\ AcceptedPending
       /\ port = FALSE
       /\ writer = FALSE
       /\ isConnected = FALSE
       /\ commandTimers = [c \in ControlIds |-> <<>>]
       /\ connectPc = "idle"
       /\ disconnectPc = "idle"
       /\ connectBtnDisabled = FALSE
       /\ controlsDisabled = TRUE
       /\ out = Quiet

ArmNext ==
    \/ unlockSystem
    \/ resetVoiceProfile
    \/ connect
    \/ \E ok \in BOOLEAN : connectRequested(ok)
    \/ \E ok \in BOOLEAN : connectOpened(ok)
    \/ disconnect
    \/ \E ok \in BOOLEAN : disconnectClosed(ok)
    \/ \E id \in ControlIds, value \in SliderValues : sliderInput(id, value)
    \/ \E id \in ControlIds, writeOk \in BOOLEAN : debounceTimer(id, writeOk)
    \/ \E arg \in {0, 1}, writeOk \in BOOLEAN : clawButton(arg, writeOk)
    \/ \E confirmed, writeOk \in BOOLEAN : handleEmergencyStop(confirmed, writeOk)

ArmSpec == ArmInit /\ [][ArmNext]_vars

\* The start of ArmSpec is a state of the program: VoiceSpec reaches it.
AcceptedPendingUnreached == ~(AcceptedPending /\ out = Quiet)

\* ------------------------------------------------------------------ claims
MatcherRan == out.type \in {"accept", "reject", "reduceError"}

\* C1: a command is written to the serial device only while the Lock State is
\* unlocked (also after resetVoiceProfile has locked the system again).
C1_WriteOnlyWhileUnlocked == (out.type = "write") => ~isLocked

\* C2: the Lock State starts locked; it goes from locked to unlocked only when
\* a pending unlockSystem timer fires, and such a timer is set only by a
\* verification one of whose similarities exceeds the threshold.
C2_UnlockOnlyByAcceptedVerification ==
    /\ isLocked = TRUE
    /\ [][/\ (isLocked /\ ~isLocked') =>
                (unlockTimers > 0 /\ unlockTimers' = unlockTimers - 1)
          /\ (unlockTimers' > unlockTimers) =>
                /\ out'.type = "accept"
                /\ \E i \in DOMAIN out'.scores : out'.scores[i] > threshold]_vars

\* C2 witness: unlockSystem has just unlocked the system.
C2_Unlocked == ~isLocked /\ out.type = "voiceUnlocked"

\* C3: in every reachable state, unlocked implies that the Profile is non-empty.
C3_UnlockedImpliesProfile == ~isLocked => Len(voiceEmbeddings) > 0

\* C4: in every reachable state the Profile holds at most 3 embeddings.
C4_ProfileAtMostTarget == Len(voiceEmbeddings) <= TargetCount

\* C5: whenever similarities are computed and reduced, the Profile is non-empty.
C5_MatcherOnNonEmptyProfile == MatcherRan => Len(voiceEmbeddings) > 0

\* C6: whenever authenticateVoice runs the Matcher, the Profile holds exactly
\* the target count of 3 embeddings.
C6_MatcherOnlyWhenReady == MatcherRan => Len(voiceEmbeddings) = TargetCount

\* C7: voiceUnlocked is dispatched only by a step that takes the Lock State from
\* locked to unlocked.
C7_NotifyOncePerTransition ==
    [][(out'.type = "voiceUnlocked") => (isLocked /\ ~isLocked')]_vars

C9_EnabledImpliesUnlockedAndConnected ==
    ~controlsDisabled => (~isLocked /\ isConnected)

\* C10: a step of disconnect() that closes the connection while the controls are
\* enabled leaves them disabled.
C10_DisconnectDisablesControls ==
    [][(isConnected /\ ~isConnected' /\ ~controlsDisabled) => controlsDisabled']_vars

\* C11: resetVoiceProfile, from any state, leaves the Lock State locked, the
\* Profile empty and the count 0; applied to a state it has just produced it
\* changes no variable of the authenticator.
C11_ResetLocksAndEmpties ==
    [][/\ resetVoiceProfile =>
             (isLocked' /\ voiceEmbeddings' = <<>> /\ recordingCount' = 0)
       /\ (/\ resetVoiceProfile
           /\ isLocked /\ voiceEmbeddings = <<>> /\ recordingCount = 0
           /\ setupPhase /\ ~authPhase) => UNCHANGED voiceVars]_vars

\* C11 witness: a reset that followed an unlock (the overlay is hidden by
\* unlockSystem only) and came after enrollment.
C11_ResetAfterUnlock ==
    /\ isLocked /\ ~lockOverlay
    /\ voiceEmbeddings = <<>> /\ recordingCount = 0
    /\ setupPhase /\ ~authPhase /\ out = Quiet

C13_NoErrorEscapesOnstop == out.type # "TypeError"

\* C14: without a loaded model a click on the record button starts a capture,
\* as it does with one; it is not refused.
C14_EnrollsWithoutModel ==
    [][(~modelLoaded /\ recordVoiceSample) =>
          /\ out'.type # "alert"
          /\ pendingMedia'["enroll"] = pendingMedia["enroll"] + 1]_vars

\* C15: a recorder that is recording is the one this.mediaRecorder names: a
\* capture started later has not taken its place.
C15_RecorderNotReplaced ==
    \A i \in Slots : recorders[i].state = "recording" => mediaRecorder = i

\* C16: a control has at most one debounce timer pending; a slider input on the
\* control leaves exactly the timer of its own value pending and changes no
\* other control's timer; a timer that fires sends nothing but its own command
\* and leaves the other controls' timers alone.
C16_DebounceSendsLastValueOnce ==
    /\ [](\A id \in ControlIds : Len(commandTimers[id]) <= 1)
    /\ [][\A id \in ControlIds :
            /\ \A value \in SliderValues :
                 sliderInput(id, value) =>
                    /\ commandTimers'[id] = << <<Letter(id), value>> >>
                    /\ out'.type # "write"
                    /\ \A other \in ControlIds \ {id} :
                          commandTimers'[other] = commandTimers[other]
            /\ (Len(commandTimers'[id]) < Len(commandTimers[id])) =>
                    /\ out'.type = "write" => out'.cmd = Head(commandTimers[id])
                    /\ commandTimers'[id] = <<>>
                    /\ \A other \in ControlIds \ {id} :
                          commandTimers'[other] = commandTimers[other]]_vars

\* C16 witness: the base control's timer has fired and written its command
\* while the claw control's timer is still pending.
C16_SentWhileOtherPending ==
    /\ out = Emit("write", <<"B", 90>>, <<>>)
    /\ commandTimers["base"] = <<>>
    /\ commandTimers["claw"] = << <<"C", 0>> >>

\* C17: STOP is written only by handleEmergencyStop after confirm returned true,
\* and that step leaves the controls disabled; when confirm returns false
\* nothing is written and no variable of the controls, the serial side or the
\* authenticator changes.
C17_StopOnlyAfterConfirm ==
    [][/\ (out'.type = "write" /\ out'.cmd = STOP) =>
             (handleEmergencyStop(TRUE, TRUE) /\ ~controlsDisabled /\ controlsDisabled')
       /\ \A writeOk \in BOOLEAN :
             handleEmergencyStop(FALSE, writeOk) =>
                /\ out'.type # "write"
                /\ UNCHANGED <<controlsDisabled, serialVars, voiceVars>>]_vars

\* C17 witness: STOP has been written and the controls are disabled, the system
\* being unlocked and connected.
C17_StoppedAndDisabled ==
    /\ out = Emit("write", STOP, <<>>)
    /\ controlsDisabled /\ ~isLocked /\ isConnected

\* C18: for the scores of a verification, acceptance at a threshold implies
\* acceptance at every lower threshold; the verdict is the one at this.threshold.
C18_ThresholdMonotone ==
    (out.type \in {"accept", "reject"}) =>
        /\ (out.type = "accept") <=> AcceptsAt(out.scores, threshold)
        /\ \A t1, t2 \in Thresholds :
              (t1 <= t2 /\ AcceptsAt(out.scores, t2)) => AcceptsAt(out.scores, t1)

\* C18 witness: scores accepted at this.threshold that a higher threshold rejects.
C18_AcceptedBelowHigherThreshold ==
    /\ out.type = "accept"
    /\ \E t \in Thresholds : t > threshold /\ ~AcceptsAt(out.scores, t)

\* C19: for a capture at least one frame long, at any sample rate, extractMFCC
\* fills N / 2 power values per frame of N samples and returns 13 coefficients.
C19_ThirteenCoefficients ==
    (/\ avgMFCC # NotRun
     /\ audioBuffer.length >= frameLength(audioBuffer.sampleRate)) =>
        /\ avgMFCC.error = "none"
        /\ 2 * avgMFCC.spectrum = frameLength(audioBuffer.sampleRate)
        /\ avgMFCC.coeffs = NumCoeffs

\* The figure the README gives for the match that unlocks (60%), in hundredths.
ReadmeMatch == 60

C21_VerificationKeepsProfile ==
    [][/\ (\/ out'.type \in {"accept", "reject"}
           \/ authenticateVoice
           \/ startRecording("verify")) =>
              UNCHANGED <<voiceEmbeddings, recordingCount>>
       /\ (out'.type = "reject") =>
              UNCHANGED <<isLocked, unlockTimers, setupPhase, authPhase>>]_vars

\* C21 witness: a rejected verification in Ready: locked, three embeddings,
\* the authentication phase displayed, no unlock pending.
C21_RejectedInReady ==
    /\ out.type = "reject"
    /\ isLocked /\ Len(voiceEmbeddings) = TargetCount /\ recordingCount = TargetCount
    /\ authPhase /\ ~setupPhase /\ unlockTimers = 0

\* C24: once every stop timer has fired no recorder is recording: each recorder
\* that was started has been stopped by its timer.
C24_NoRecorderLeftRecording ==
    (stopTimers = 0) => \A i \in Slots : recorders[i].state # "recording"

\* C25: the step that follows a successful STOP write (the controls are
\* disabled then, so it is no user operation) writes no servo command.
C25_NoDeliveryAfterStop ==
    [][(out.type = "write" /\ out.cmd = STOP) =>
          ~(out'.type = "write" /\ out'.cmd # STOP)]_vars

\* C26: while there is no writer or isConnected is false nothing is written;
\* a debounce timer that fires then gets the warning and the false result, and
\* but for the timer itself no variable of the program changes.
C26_NoWriteWithoutConnection ==
    [][(~writer \/ ~isConnected) =>
          /\ out'.type \notin {"write", "sendError"}
          /\ \A id \in ControlIds :
                (Len(commandTimers'[id]) < Len(commandTimers[id])) =>
                   /\ out'.type = "warn"
                   /\ UNCHANGED <<voiceVars, port, writer, isConnected, connectPc,
                                  disconnectPc, connectBtnDisabled, controlsDisabled>>]_vars

\* C26 witness: a command was refused after disconnect() had completed, the
\* controls still enabled.
C26_RefusedAfterDisconnect ==
    /\ out.type = "warn"
    /\ ~isConnected /\ ~writer /\ ~port /\ disconnectPc = "idle"
    /\ ~controlsDisabled

\* C27: isConnected implies that the port and the writer are set, in every
\* state; arduinoConnected is dispatched in such a state with isConnected true;
\* the alert of a failed connect leaves isConnected false.
C27_ConnectedImpliesPortAndWriter ==
    /\ isConnected => (port /\ writer)
    /\ (out.type = "arduinoConnected") => (isConnected /\ port /\ writer)
    /\ (out.type = "alert") => ~isConnected

\* C28: the authentication phase is displayed, or the setup phase hidden, only
\* while three samples are enrolled.
C28_AuthPhaseOnlyWhenEnrolled ==
    (authPhase \/ ~setupPhase) =>
        (Len(voiceEmbeddings) >= TargetCount /\ recordingCount >= TargetCount)

\* C22: frameSignal returns floor((L - F) / S) + 1 frames when L >= F and none
\* when L < F; frame i (from 0) starts at sample i * S and has F samples; a
\* sample past the end of the last frame is in no frame.
C22_FramesCountStartAndLength ==
    (framed # NotFramed) =>
        LET L == framed.length
            F == framed.frameLength
            S == framed.frameStep
            fr == framed.frames
        IN  /\ Len(fr) = IF L >= F THEN ((L - F) \div S) + 1 ELSE 0
            /\ \A i \in 1..Len(fr) : fr[i].start = (i - 1) * S /\ fr[i].samples = F
            /\ \A j \in 0..(L - 1) :
                  (Len(fr) = 0 \/ j >= (Len(fr) - 1) * S + F) =>
                     \A i \in 1..Len(fr) :
                        ~(fr[i].start <= j /\ j < fr[i].start + fr[i].samples)

\* C22 witness: several frames that overlap, and a trailing sample left out.
C22_FramedWithTrailingSample ==
    /\ framed # NotFramed
    /\ Len(framed.frames) >= 3
    /\ framed.frameStep < framed.frameLength
    /\ (Len(framed.frames) - 1) * framed.frameStep + framed.frameLength < framed.length

\* C23: with a model loaded the features handed to it have 128 components: the
\* first min(len, 128) are those of the feature vector in order, the others are
\* 0; the feature vector is after the call what it was before.
C23_PaddedOrTruncatedTo128 ==
    (inputTensor # NotBuilt) =>
        /\ Len(inputTensor.features) = IntermediateWidth
        /\ \A i \in 1..IntermediateWidth :
              inputTensor.features[i] =
                 IF i <= Len(inputTensor.given) THEN inputTensor.given[i] ELSE 0
        /\ inputTensor.mfcc = inputTensor.given

\* C23 witness: a feature vector longer than 128 has been truncated.
C23_Truncated ==
    /\ inputTensor # NotBuilt
    /\ Len(inputTensor.given) > IntermediateWidth
    /\ inputTensor.features[IntermediateWidth] = IntermediateWidth

====
